---- MODULE Spec2Model ----
(***************************************************************************)
(* Compilation memory statistic of HotSpot                                 *)
(* (src/hotspot/share/compiler/compilationMemoryStatistic.cpp):            *)
(*   - ArenaStatCounter, the per compiler thread peak tracker;             *)
(*   - FullMethodName / MemStatEntry / MemStatTable, the registry;         *)
(*   - CompilationMemoryStatistic, the facade with its hooks and report;   *)
(*   - CompilationMemoryStatisticMark, the scoped collection mark.         *)
(***************************************************************************)
EXTENDS Integers, Sequences, FiniteSets, TLC

(***************************************************************************)
(* Bounds of the model.                                                    *)
(***************************************************************************)
\* cap on ArenaStatCounter::_current (bytes are counted in units)
MaxCurrent == 3
\* cap on the number of account() calls of one tracking window
MaxCalls == 3

\* cap on the number of MemStatTable::add calls of a run
MaxUpserts == 3
\* cap on the number of compile tasks handed to the compiler threads
MaxTasks == 2
\* cap on _current while compiler threads run side by side
MaxArena == 1

\* the compiler threads; each owns one ArenaStatCounter
Workers == {"w1", "w2"}
\* the thread the tracker specification follows
TrackerWorkers == {"w1"}
NoThread == "nullptr"

\* signed deltas handed to account()
Deltas == {-2, -1, 1, 2}
\* Arena::Tag values: resource area, node arena, any other arena
Tags == {"tag_ra", "tag_node", "tag_other"}
\* CompilerType of the running task as update_c2_node_count() reads it
CompilerTypes == {"c1", "c2"}
NoTask == "no_task"
\* Compile::current(): nullptr, or a Compile with this many live nodes
NullCompile == -1
\* what update_c2_node_count() finds on the current thread: the type of the
\* compiler of its task (NoTask without a task) and Compile::current()
ThreadContexts ==
  {[ct |-> NoTask, comp |-> NullCompile], [ct |-> "c1", comp |-> NullCompile],
   [ct |-> "c2", comp |-> NullCompile], [ct |-> "c2", comp |-> 1]}

\* the thread that runs print_all_by_size()
Reporter == "reporter"

\* Symbol*: interned names, compared by address
Symbols == {1, 2, 3}

VARIABLES
  arena_stat,   \* [Workers -> ArenaStatCounter]: CompilerThread::arena_stat()
  hist,         \* history of the tracker specification (see TrackerHist)
  enabled,      \* CompilationMemoryStatistic::_enabled
  the_table,    \* _the_table: whether it is allocated, and its nodes
  entries,      \* the MemStatEntry objects on the C heap; a pointer is an index
  clock,        \* os::elapsedTime(), counted in reads
  lock_owner,   \* owner of NMTCompilationCostHistory_lock
  calls,        \* history: the add() calls that returned, by method
  rep,          \* print_all_by_size(): position and locals
  out,          \* the lines print_all_by_size() wrote to its stream
  pc,           \* [Workers -> position of the compiler thread]
  task,         \* [Workers -> CompilerThread::task()]
  mark,         \* [Workers -> the CompilationMemoryStatisticMark on its stack]
  loc,          \* [Workers -> locals of on_end_compilation() and add()]
  permanent,    \* the Symbols made permanent
  tty,          \* the lines on_end_compilation() wrote to tty
  mark_hist,    \* history: marks built and left, hooks called, per thread
  ntasks        \* number of compile tasks handed out

trackerVars == <<arena_stat, hist>>
tableVars == <<enabled, the_table, entries, clock, calls>>
reportVars == <<rep, out>>
workerVars == <<pc, task, mark, loc, permanent, tty, mark_hist, ntasks>>
vars == <<arena_stat, hist, enabled, the_table, entries, clock, lock_owner,
          calls, rep, out, pc, task, mark, loc, permanent, tty, mark_hist,
          ntasks>>

(***************************************************************************)
(* ArenaStatCounter                                                        *)
(***************************************************************************)
Max(a, b) == IF a >= b THEN a ELSE b

ArenaStatCounter ==
  [current |-> 0, start |-> 0, peak |-> 0, na |-> 0, ra |-> 0,
   na_at_peak |-> 0, ra_at_peak |-> 0, live_nodes_at_peak |-> 0]

\* mutant: the peak is reported without subtracting the baseline
peak_since_start_absolute(c) ==
  c.peak

peak_since_start(c) ==
  IF c.peak > c.start THEN c.peak - c.start ELSE 0

start(c) ==
  [c EXCEPT !.peak = c.current, !.start = c.current]

\* ctx: the thread context, one of ThreadContexts
update_c2_node_count(c, ctx) ==
  IF ctx.ct # NoTask /\ ctx.ct = "c2" /\ ctx.comp # NullCompile
  THEN [c EXCEPT !.live_nodes_at_peak = ctx.comp]
  ELSE c

\* the assertion that opens account()
account_pre(c, delta) == delta >= 0 \/ c.current + delta >= 0

account_totals(c, delta, tag) ==
  [c EXCEPT !.current = c.current + delta,
            !.ra = IF tag = "tag_ra" THEN c.ra + delta ELSE c.ra,
            !.na = IF tag = "tag_node" THEN c.na + delta ELSE c.na]

\* mutant: the new peak is not stored
account_no_peak(c, delta, tag, ctx) ==
  LET t == account_totals(c, delta, tag) IN
  IF t.current > t.peak
  THEN update_c2_node_count(
         [t EXCEPT !.na_at_peak = t.na, !.ra_at_peak = t.ra], ctx)
  ELSE t

\* mutant: the peak follows every change of the total
account_peak_follows(c, delta, tag, ctx) ==
  LET t == account_totals(c, delta, tag) IN
  IF t.current # t.peak
  THEN update_c2_node_count(
         [t EXCEPT !.peak = t.current, !.na_at_peak = t.na, !.ra_at_peak = t.ra],
         ctx)
  ELSE t

account(c, delta, tag, ctx) ==
  LET t == account_totals(c, delta, tag) IN
  IF t.current > t.peak
  THEN update_c2_node_count(
         [t EXCEPT !.peak = t.current, !.na_at_peak = t.na, !.ra_at_peak = t.ra],
         ctx)
  ELSE t

\* The allocator reports the size changes of arenas, each with its own tag:
\* an arena never shrinks below empty, so no category total goes negative.
arena_sizes_ok(c, delta, tag) ==
  LET t == account_totals(c, delta, tag) IN
  t.na >= 0 /\ t.ra >= 0 /\ t.current - t.na - t.ra >= 0

\* mutant: reaching the old peak again counts as a peak
account_rc_at_least(c, delta, tag) ==
  LET t == account_totals(c, delta, tag) IN t.current >= t.peak

\* the value account() returns
account_rc(c, delta, tag) ==
  LET t == account_totals(c, delta, tag) IN t.current > t.peak


(***************************************************************************)
(* FullMethodName                                                          *)
(***************************************************************************)
FullMethodName(k, m, s) == [k |-> k, m |-> m, s |-> s]

\* the methods compiled in the model: the first two differ in two components
\* and have the same hash, the third differs from each in one component
Methods ==
  {FullMethodName(1, 2, 3), FullMethodName(2, 1, 3), FullMethodName(1, 1, 3)}

\* Symbol::compute_hash
Symbol_compute_hash(sym) ==
  CASE sym = 1 -> 5 [] sym = 2 -> 3 [] OTHER -> 6

\* exclusive or of two unsigned values
RECURSIVE BitXor(_, _)
BitXor(a, b) ==
  IF a = 0 THEN b
  ELSE IF b = 0 THEN a
  ELSE (((a % 2) + (b % 2)) % 2) + 2 * BitXor(a \div 2, b \div 2)

compute_hash(n) ==
  BitXor(BitXor(Symbol_compute_hash(n.k), Symbol_compute_hash(n.m)),
         Symbol_compute_hash(n.s))

equals(a, b) ==
  a.k = b.k /\ a.m = b.m /\ a.s = b.s

(***************************************************************************)
(* MemStatEntry                                                            *)
(***************************************************************************)
MemStatEntry(method) ==
  [method |-> method, comptype |-> "c1", time |-> 0, num_recomp |-> 0,
   thread |-> NoThread, total |-> 0, na_at_peak |-> 0, ra_at_peak |-> 0,
   live_nodes_at_peak |-> 0]

\* mutant: the operands are taken the other way round
compare_by_size_ascending(a, b) ==
  LET x1 == a.total
      x2 == b.total IN
  IF x1 < x2 THEN -1 ELSE IF x1 = x2 THEN 0 ELSE 1

\* a is this, b the argument
compare_by_size(a, b) ==
  LET x1 == b.total
      x2 == a.total IN
  IF x1 < x2 THEN -1 ELSE IF x1 = x2 THEN 0 ELSE 1

diff_entries_by_size(e1, e2) == compare_by_size(e1, e2)

(***************************************************************************)
(* ResourceHashtable<FullMethodName, MemStatEntry*, 7919, ...>: the nodes  *)
(* in the order they were put; a node is found in the bucket of its hash   *)
(* by its hash and its key, and iteration goes bucket by bucket.           *)
(***************************************************************************)
TableSize == 7919
NullEntry == 0

lookup_node(tbl, fmn) ==
  LET h == compute_hash(fmn) IN
  {i \in DOMAIN tbl :
     /\ (tbl[i].hash % TableSize) = (h % TableSize)
     /\ tbl[i].hash = h
     /\ equals(tbl[i].key, fmn)}

get(tbl, fmn) ==
  LET found == lookup_node(tbl, fmn) IN
  IF found = {} THEN NullEntry ELSE tbl[CHOOSE i \in found : TRUE].value

put(tbl, fmn, e) ==
  LET found == lookup_node(tbl, fmn) IN
  IF found = {}
  THEN Append(tbl, [hash |-> compute_hash(fmn), key |-> fmn, value |-> e])
  ELSE [tbl EXCEPT ![CHOOSE i \in found : TRUE].value = e]

number_of_entries(tbl) == Len(tbl)

RECURSIVE iterate_buckets(_, _)
iterate_buckets(tbl, buckets) ==
  IF buckets = {} THEN <<>>
  ELSE LET b == CHOOSE x \in buckets : \A y \in buckets : x <= y
           chain == SelectSeq(tbl, LAMBDA n : (n.hash % TableSize) = b) IN
       [i \in DOMAIN chain |-> chain[i].value]
         \o iterate_buckets(tbl, buckets \ {b})

\* the values in the order iterate_all() visits them
iterate_all(tbl) ==
  iterate_buckets(tbl, {tbl[i].hash % TableSize : i \in DOMAIN tbl})

(***************************************************************************)
(* MemStatTable                                                            *)
(***************************************************************************)
\* what one compilation hands to add()
Measurement(ct, total, na, ra, nodes) ==
  [comptype |-> ct, total |-> total, na_at_peak |-> na, ra_at_peak |-> ra,
   live_nodes_at_peak |-> nodes]

\* mutant: every call makes a new entry and puts it under the key
add_find_fresh(tbl, ents, fmn) ==
  [nodes |-> put(tbl, fmn, Len(ents) + 1),
   entries |-> Append(ents, MemStatEntry(fmn)),
   e |-> Len(ents) + 1]

\* add(), lines 287-296: find the entry of fmn or create it
add_find(tbl, ents, fmn) ==
  LET pe == get(tbl, fmn) IN
  IF pe = NullEntry
  THEN [nodes |-> put(tbl, fmn, Len(ents) + 1),
        entries |-> Append(ents, MemStatEntry(fmn)),
        e |-> Len(ents) + 1]
  ELSE [nodes |-> tbl, entries |-> ents, e |-> pe]

\* add(), lines 297-300
add_stamp(ents, e, now, thr, ct) ==
  [ents EXCEPT ![e] = [@ EXCEPT !.time = now, !.thread = thr,
                                !.comptype = ct,
                                !.num_recomp = @ + 1]]

\* mutant: the total is kept at the largest value seen
add_measure_max(ents, e, meas) ==
  [ents EXCEPT ![e] = [@ EXCEPT !.total = Max(@, meas.total),
                                !.na_at_peak = meas.na_at_peak,
                                !.ra_at_peak = meas.ra_at_peak,
                                !.live_nodes_at_peak = meas.live_nodes_at_peak]]

\* add(), lines 301-304
add_measure(ents, e, meas) ==
  [ents EXCEPT ![e] = [@ EXCEPT !.total = meas.total,
                                !.na_at_peak = meas.na_at_peak,
                                !.ra_at_peak = meas.ra_at_peak,
                                !.live_nodes_at_peak = meas.live_nodes_at_peak]]

add(tbl, ents, fmn, meas, now, thr) ==
  LET f == add_find(tbl, ents, fmn) IN
  [nodes |-> f.nodes,
   entries |-> add_measure(
                 add_stamp(f.entries, f.e, now, thr, meas.comptype),
                 f.e, meas)]

\* mutant: an entry as large as the cutoff is left out
calc_flat_array_above(tbl, ents, min_size) ==
  LET flat == SelectSeq(iterate_all(tbl), LAMBDA e : ents[e].total > min_size) IN
  [flat |-> flat, num |-> Len(flat)]

calc_flat_array(tbl, ents, min_size) ==
  LET flat == SelectSeq(iterate_all(tbl), LAMBDA e : ents[e].total >= min_size) IN
  [flat |-> flat, num |-> Len(flat)]

\* QuickSort::sort(filtered, num, diff_entries_by_size, false): the orders of
\* flat in which no element compares greater than its successor
QuickSort_sort(flat, ents) ==
  LET n == Len(flat)
      perms == {f \in [1..n -> 1..n] : \A i, j \in 1..n : i # j => f[i] # f[j]} IN
  {[i \in 1..n |-> flat[f[i]]] : f \in
     {f \in perms :
        \A i \in 1..(n - 1) :
          diff_entries_by_size(ents[flat[f[i]]], ents[flat[f[i + 1]]]) <= 0}}

(***************************************************************************)
(* The lines of a report: a kind and what the line shows.                  *)
(***************************************************************************)
Line(kind, val) == <<kind, val>>

\* MemStatEntry::print_on: the columns of e (sizes as numbers in both modes)
print_on(e) == Line("row", e)

\* print_all_by_size(), lines 401-411
print_preamble(min_size) ==
  <<Line("cr", <<>>), Line("legend", <<>>), Line("cr", <<>>)>>
    \o (IF min_size > 0 THEN <<Line("cutoff", min_size)>> ELSE <<>>)
    \o <<Line("cr", <<>>), Line("header", <<>>)>>

\* print_all_by_size() before it takes the lock; array: whether the C heap
\* array behind filtered exists (filtered is nullptr until calc_flat_array)
ReportIdle ==
  [pc |-> "idle", min_size |-> 0, filtered |-> <<>>, num |-> 0, i |-> 0,
   array |-> FALSE]

(***************************************************************************)
(* The compiler thread: its task, the mark on its stack, its locals.       *)
(***************************************************************************)
\* CompileTask: the method, the type of the compiler, and of the directive
\* should_collect_memstat() and should_print_memstat()
CompileTask(method, ct, collect, print) ==
  [method |-> method, comptype |-> ct, collect |-> collect, print |-> print]

\* a thread without a task
IdleTask == CompileTask(FullMethodName(0, 0, 0), NoTask, FALSE, FALSE)

\* no mark on the stack; a mark holds _active
NoMark == [live |-> FALSE, active |-> FALSE]

\* on_end_compilation(): how the scope of the mark was left, the entry add()
\* works on and the time it read
NoLocals == [exit |-> "none", e |-> NullEntry, time |-> 0]

\* per thread: marks built and left by what their directive asked for, and
\* the calls of on_start_compilation() and on_end_compilation()
NoMarks ==
  [built_active |-> 0, built_inactive |-> 0, left_active |-> 0,
   left_inactive |-> 0, starts |-> 0, ends |-> 0]

\* the ways a scope is left
ExitPaths == {"return", "unwind"}

(***************************************************************************)
(* History of one tracker, kept by the tracker specification only:         *)
(*   base, deltas : _current when the window was opened by start() and the *)
(*                  deltas accounted since;                                *)
(*   na_set, ra_set : _na and _ra when _peak was last assigned;            *)
(*   opened : whether start() was ever called.                             *)
(***************************************************************************)
TrackerHist ==
  [base |-> 0, deltas |-> <<>>, na_set |-> 0, ra_set |-> 0, opened |-> FALSE]

Init ==
  /\ arena_stat = [w \in Workers |-> ArenaStatCounter]
  /\ hist = [w \in Workers |-> TrackerHist]
  /\ enabled = FALSE
  /\ the_table = [allocated |-> FALSE, nodes |-> <<>>]
  /\ entries = <<>>
  /\ clock = 0
  /\ lock_owner = NoThread
  /\ calls = [m \in Methods |-> <<>>]
  /\ rep = ReportIdle
  /\ out = <<>>
  /\ pc = [w \in Workers |-> "idle"]
  /\ task = [w \in Workers |-> IdleTask]
  /\ mark = [w \in Workers |-> NoMark]
  /\ loc = [w \in Workers |-> NoLocals]
  /\ permanent = {}
  /\ tty = <<>>
  /\ mark_hist = [w \in Workers |-> NoMarks]
  /\ ntasks = 0

\* ArenaStatCounter::start() on the tracker of w
Start(w) ==
  /\ arena_stat' = [arena_stat EXCEPT ![w] = start(@)]
  /\ hist' = [hist EXCEPT ![w] =
       [base |-> arena_stat[w].current, deltas |-> <<>>,
        na_set |-> arena_stat[w].na, ra_set |-> arena_stat[w].ra,
        opened |-> TRUE]]
  /\ UNCHANGED <<tableVars, lock_owner, reportVars, workerVars>>

\* ArenaStatCounter::account(delta, tag) on the tracker of w
Account(w, delta, tag, ctx) ==
  /\ account_pre(arena_stat[w], delta)
  /\ arena_sizes_ok(arena_stat[w], delta, tag)
  /\ arena_stat[w].current + delta <= MaxCurrent
  /\ Len(hist[w].deltas) < MaxCalls
  /\ arena_stat' = [arena_stat EXCEPT ![w] = account(@, delta, tag, ctx)]
  /\ hist' = [hist EXCEPT ![w] =
       [@ EXCEPT !.deltas = Append(@, delta),
                 !.na_set = IF account_rc(arena_stat[w], delta, tag)
                            THEN arena_stat'[w].na ELSE @,
                 !.ra_set = IF account_rc(arena_stat[w], delta, tag)
                            THEN arena_stat'[w].ra ELSE @]]
  /\ UNCHANGED <<tableVars, lock_owner, reportVars, workerVars>>

NextTracker ==
  \E w \in TrackerWorkers :
    \/ Start(w)
    \/ \E delta \in Deltas, tag \in Tags, ctx \in ThreadContexts :
         Account(w, delta, tag, ctx)

SpecTracker == Init /\ [][NextTracker]_vars


(***************************************************************************)
(* The registry and the report, one thread at a time under the lock.       *)
(***************************************************************************)
\* the calls of the model to add(): the calling thread and what it hands over
AddCalls ==
  {[thread |-> "w1", meas |-> Measurement("c1", 3, 0, 2, 0)],
   [thread |-> "w2", meas |-> Measurement("c2", 1, 1, 0, 1)],
   [thread |-> "w1", meas |-> Measurement("c2", 2, 1, 1, 2)]}

\* the cutoffs print_all_by_size() is called with
MinSizes == {0, 2}

\* initialize(), line 338: the assertion "Only once"
initialize_pre(en, tbl) == en = FALSE /\ tbl.allocated = FALSE

\* mutant: initialize() sets the flag before it makes the table
initialize_step_flag_first(en, tbl) ==
  IF initialize_pre(en, tbl)
  THEN [enabled |-> TRUE, table |-> tbl]
  ELSE [enabled |-> en, table |-> [allocated |-> TRUE, nodes |-> <<>>]]

\* initialize(), lines 339-340, one statement at a time: the table is made
\* first, _enabled is set second
initialize_step(en, tbl) ==
  IF initialize_pre(en, tbl)
  THEN [enabled |-> en, table |-> [allocated |-> TRUE, nodes |-> <<>>]]
  ELSE [enabled |-> TRUE, table |-> tbl]

\* CompilationMemoryStatistic::initialize(): entered when its assertion
\* holds, it goes on until both statements are done
Initialize ==
  /\ initialize_pre(enabled, the_table) \/ (enabled # the_table.allocated)
  /\ enabled' = initialize_step(enabled, the_table).enabled
  /\ the_table' = initialize_step(enabled, the_table).table
  /\ UNCHANGED <<trackerVars, entries, clock, calls, lock_owner, reportVars,
                 workerVars>>

\* what a completed add() call is remembered by
CallRecord(thr, meas, now) == [thread |-> thr, meas |-> meas, time |-> now]

\* MemStatTable::add(fmn, ...) by a thread that holds the lock for the call
Add(thr, fmn, meas) ==
  /\ the_table.allocated
  /\ lock_owner = NoThread
  /\ clock < MaxUpserts
  /\ LET now == clock + 1
         r == add(the_table.nodes, entries, fmn, meas, now, thr) IN
       /\ the_table' = [the_table EXCEPT !.nodes = r.nodes]
       /\ entries' = r.entries
       /\ clock' = now
       /\ calls' = [calls EXCEPT ![fmn] = Append(@, CallRecord(thr, meas, now))]
  /\ UNCHANGED <<trackerVars, enabled, lock_owner, reportVars, workerVars>>

\* mutant: the report does not look at enabled()
PrintBegin_always(min_size) ==
  /\ rep.pc = "idle"
  /\ out' = <<Line("title", <<>>)>> \o print_preamble(min_size)
  /\ rep' = [ReportIdle EXCEPT !.pc = "lock", !.min_size = min_size]
  /\ UNCHANGED <<trackerVars, tableVars, lock_owner, workerVars>>

\* print_all_by_size(), lines 393-411
PrintBegin(min_size) ==
  /\ rep.pc = "idle"
  /\ IF ~enabled
     THEN /\ out' = <<Line("title", <<>>), Line("unavailable", <<>>)>>
          /\ rep' = rep
     ELSE /\ out' = <<Line("title", <<>>)>> \o print_preamble(min_size)
          /\ rep' = [ReportIdle EXCEPT !.pc = "lock", !.min_size = min_size]
  /\ UNCHANGED <<trackerVars, tableVars, lock_owner, workerVars>>

\* mutant: the report goes on without the lock
PrintLock_unlocked ==
  lock_owner' = lock_owner

\* print_all_by_size(), line 415: MutexLocker ml(NMTCompilationCostHistory_lock)
PrintLock ==
  /\ lock_owner = NoThread
  /\ lock_owner' = Reporter

\* print_all_by_size(), lines 413-423 and 433-435
PrintSnapshot ==
  /\ rep.pc = "lock"
  /\ PrintLock
  /\ IF the_table.allocated
     THEN LET r == calc_flat_array(the_table.nodes, entries, rep.min_size) IN
          /\ rep' = [rep EXCEPT !.pc = "sort", !.filtered = r.flat,
                                !.num = r.num, !.array = TRUE]
          /\ out' = IF rep.min_size > 0
                    THEN Append(out, Line("count",
                           <<r.num, number_of_entries(the_table.nodes)>>))
                    ELSE out
     ELSE /\ rep' = [rep EXCEPT !.pc = "unlock"]
          /\ out' = Append(out, Line("not_initialized", <<>>))
  /\ UNCHANGED <<trackerVars, tableVars, workerVars>>

\* print_all_by_size(), lines 424-425 and 430-432
PrintSort ==
  /\ rep.pc = "sort"
  /\ IF rep.num > 0
     THEN /\ \E sorted \in QuickSort_sort(rep.filtered, entries) :
               rep' = [rep EXCEPT !.pc = "rows", !.filtered = sorted, !.i = 1]
          /\ out' = out
     ELSE /\ rep' = [rep EXCEPT !.pc = "unlock"]
          /\ out' = Append(out, Line("no_entries", <<>>))
  /\ UNCHANGED <<trackerVars, tableVars, lock_owner, workerVars>>

\* print_all_by_size(), lines 427-429: one round of the loop
PrintRow ==
  /\ rep.pc = "rows"
  /\ out' = Append(out, print_on(entries[rep.filtered[rep.i]]))
  /\ rep' = [rep EXCEPT !.i = @ + 1,
                        !.pc = IF rep.i + 1 > rep.num THEN "unlock" ELSE "rows"]
  /\ UNCHANGED <<trackerVars, tableVars, lock_owner, workerVars>>

\* mutant: the array is freed at the end of the locked scope
PrintUnlock_frees ==
  /\ rep.pc = "unlock"
  /\ lock_owner' = IF lock_owner = Reporter THEN NoThread ELSE lock_owner
  /\ rep' = [rep EXCEPT !.pc = "free", !.array = FALSE]
  /\ UNCHANGED <<trackerVars, tableVars, out, workerVars>>

\* print_all_by_size(), line 436: the MutexLocker goes out of scope
PrintUnlock ==
  /\ rep.pc = "unlock"
  /\ lock_owner' = IF lock_owner = Reporter THEN NoThread ELSE lock_owner
  /\ rep' = [rep EXCEPT !.pc = "free"]
  /\ UNCHANGED <<trackerVars, tableVars, out, workerVars>>

\* print_all_by_size(), line 438: FREE_C_HEAP_ARRAY
PrintFree ==
  /\ rep.pc = "free"
  /\ rep' = ReportIdle
  /\ UNCHANGED <<trackerVars, tableVars, lock_owner, out, workerVars>>

PrintAllBySize(min_sizes) ==
  \/ \E min_size \in min_sizes : PrintBegin(min_size)
  \/ PrintSnapshot
  \/ PrintSort
  \/ PrintRow
  \/ PrintUnlock
  \/ PrintFree

NextRegistry ==
  \/ Initialize
  \/ \E fmn \in Methods, c \in AddCalls : Add(c.thread, fmn, c.meas)
  \/ PrintAllBySize(MinSizes)

SpecRegistry == Init /\ [][NextRegistry]_vars

(***************************************************************************)
(* The compiler threads and the report side by side.                       *)
(***************************************************************************)
\* the compile tasks of the model
CompileTasks ==
  {CompileTask(FullMethodName(1, 2, 3), "c2", TRUE, FALSE),
   CompileTask(FullMethodName(2, 1, 3), "c1", TRUE, TRUE),
   CompileTask(FullMethodName(1, 2, 3), "c1", FALSE, FALSE)}

\* the arena size changes of the model, each with Compile::current() as
\* on_arena_change() finds it: a node arena grows during a compilation with
\* one live node, the resource area grows while there is no Compile
ArenaChanges ==
  {[delta |-> 1, tag |-> "tag_node", comp |-> 1],
   [delta |-> 1, tag |-> "tag_ra", comp |-> NullCompile]}

\* CompilationMemoryStatistic::on_start_compilation() on thread w
on_start_compilation(w) ==
  /\ enabled
  /\ arena_stat' = [arena_stat EXCEPT ![w] = start(@)]

\* mutant: the mark starts a window whatever the directive says
MarkCtor_always(w, tk) ==
  /\ pc[w] = "idle"
  /\ ntasks < MaxTasks
  /\ ntasks' = ntasks + 1
  /\ task' = [task EXCEPT ![w] = tk]
  /\ mark' = [mark EXCEPT ![w] = [live |-> TRUE, active |-> tk.collect]]
  /\ on_start_compilation(w)
  /\ mark_hist' = [mark_hist EXCEPT ![w] =
       [@ EXCEPT !.built_active = IF tk.collect THEN @ + 1 ELSE @,
                 !.built_inactive = IF tk.collect THEN @ ELSE @ + 1,
                 !.starts = @ + 1]]
  /\ pc' = [pc EXCEPT ![w] = "compiling"]
  /\ UNCHANGED <<hist, tableVars, lock_owner, reportVars, loc, permanent, tty>>

\* The compile broker hands thread w the task tk and compiles it in the scope
\* of a mark:
\* CompilationMemoryStatisticMark::CompilationMemoryStatisticMark(directive)
MarkCtor(w, tk) ==
  /\ pc[w] = "idle"
  /\ ntasks < MaxTasks
  /\ ntasks' = ntasks + 1
  /\ task' = [task EXCEPT ![w] = tk]
  /\ LET active == tk.collect IN
     /\ mark' = [mark EXCEPT ![w] = [live |-> TRUE, active |-> active]]
     /\ IF active
        THEN on_start_compilation(w)
        ELSE arena_stat' = arena_stat
     /\ mark_hist' = [mark_hist EXCEPT ![w] =
          [@ EXCEPT !.built_active = IF tk.collect THEN @ + 1 ELSE @,
                    !.built_inactive = IF tk.collect THEN @ ELSE @ + 1,
                    !.starts = IF active THEN @ + 1 ELSE @]]
  /\ pc' = [pc EXCEPT ![w] = "compiling"]
  /\ UNCHANGED <<hist, tableVars, lock_owner, reportVars, loc, permanent, tty>>

\* mutant: every thread accounts into the same ArenaStatCounter
on_arena_change_shared(w, diff, tag, comp) ==
  LET s == CHOOSE v \in Workers : TRUE IN
  /\ pc[w] = "compiling"
  /\ enabled
  /\ account_pre(arena_stat[s], diff)
  /\ arena_sizes_ok(arena_stat[s], diff, tag)
  /\ arena_stat[s].current + diff <= MaxArena
  /\ arena_stat' = [arena_stat EXCEPT ![s] =
       account(@, diff, tag, [ct |-> task[w].comptype, comp |-> comp])]
  /\ UNCHANGED <<hist, tableVars, lock_owner, reportVars, workerVars>>

\* CompilationMemoryStatistic::on_arena_change(diff, arena) on thread w
on_arena_change(w, diff, tag, comp) ==
  /\ pc[w] = "compiling"
  /\ enabled
  /\ account_pre(arena_stat[w], diff)
  /\ arena_sizes_ok(arena_stat[w], diff, tag)
  /\ arena_stat[w].current + diff <= MaxArena
  /\ arena_stat' = [arena_stat EXCEPT ![w] =
       account(@, diff, tag, [ct |-> task[w].comptype, comp |-> comp])]
  /\ UNCHANGED <<hist, tableVars, lock_owner, reportVars, workerVars>>

\* mutant: the signature symbol is not made permanent
make_permanent_no_signature(fmn) == permanent \cup {fmn.k, fmn.m}

\* FullMethodName::make_permanent
make_permanent(fmn) == permanent \cup {fmn.k, fmn.m, fmn.s}

\* ArenaStatCounter::print_on, as on_end_compilation() prints it
TraceLine(ct, fmn, c) ==
  [comptype |-> ct, method |-> fmn, total |-> peak_since_start(c),
   na |-> c.na_at_peak, ra |-> c.ra_at_peak]

\* on_end_compilation(), lines 350-370
on_end_compilation(w) ==
  /\ enabled
  /\ task[w].collect
  /\ permanent' = make_permanent(task[w].method)
  /\ tty' = IF task[w].print
            THEN Append(tty, TraceLine(task[w].comptype, task[w].method,
                                       arena_stat[w]))
            ELSE tty
  /\ pc' = [pc EXCEPT ![w] = "end_lock"]

\* mutant: the mark ends a window whatever _active says
MarkDtor_always(w, exit) ==
  /\ pc[w] = "compiling"
  /\ mark' = [mark EXCEPT ![w] = NoMark]
  /\ mark_hist' = [mark_hist EXCEPT ![w] =
       [@ EXCEPT !.left_active = IF task[w].collect THEN @ + 1 ELSE @,
                 !.left_inactive = IF task[w].collect THEN @ ELSE @ + 1,
                 !.ends = @ + 1]]
  /\ loc' = [loc EXCEPT ![w] = [@ EXCEPT !.exit = exit]]
  /\ enabled
  /\ permanent' = make_permanent(task[w].method)
  /\ tty' = tty
  /\ pc' = [pc EXCEPT ![w] = "end_lock"]
  /\ UNCHANGED <<trackerVars, tableVars, lock_owner, reportVars, task, ntasks>>

\* CompilationMemoryStatisticMark::~CompilationMemoryStatisticMark(), run
\* however the scope of the mark is left
MarkDtor(w, exit) ==
  /\ pc[w] = "compiling"
  /\ mark' = [mark EXCEPT ![w] = NoMark]
  /\ mark_hist' = [mark_hist EXCEPT ![w] =
       [@ EXCEPT !.left_active = IF task[w].collect THEN @ + 1 ELSE @,
                 !.left_inactive = IF task[w].collect THEN @ ELSE @ + 1,
                 !.ends = IF mark[w].active THEN @ + 1 ELSE @]]
  /\ IF mark[w].active
     THEN /\ on_end_compilation(w)
          /\ loc' = [loc EXCEPT ![w] = [@ EXCEPT !.exit = exit]]
          /\ task' = task
     ELSE /\ pc' = [pc EXCEPT ![w] = "idle"]
          /\ task' = [task EXCEPT ![w] = IdleTask]
          /\ UNCHANGED <<permanent, tty, loc>>
  /\ UNCHANGED <<trackerVars, tableVars, lock_owner, reportVars, ntasks>>

\* mutant: add() is called without the lock
EndLock_unlocked(w) ==
  lock_owner' = lock_owner

\* on_end_compilation(), line 372: MutexLocker ml(NMTCompilationCostHistory_lock)
EndLock(w) ==
  /\ lock_owner = NoThread
  /\ lock_owner' = w

\* what on_end_compilation() hands to add(), lines 375-379
TrackerMeasurement(ct, c) ==
  Measurement(ct, peak_since_start(c), c.na_at_peak, c.ra_at_peak,
              c.live_nodes_at_peak)

\* on_end_compilation(), lines 371-375, and add(), lines 285-300
EndAddStamp(w) ==
  /\ pc[w] = "end_lock"
  /\ EndLock(w)
  /\ the_table.allocated
  /\ LET now == clock + 1
         f == add_find(the_table.nodes, entries, task[w].method) IN
       /\ the_table' = [the_table EXCEPT !.nodes = f.nodes]
       /\ entries' = add_stamp(f.entries, f.e, now, w, task[w].comptype)
       /\ clock' = now
       /\ loc' = [loc EXCEPT ![w] = [@ EXCEPT !.e = f.e, !.time = now]]
  /\ pc' = [pc EXCEPT ![w] = "end_measure"]
  /\ UNCHANGED <<trackerVars, enabled, calls, reportVars, task, mark,
                 permanent, tty, mark_hist, ntasks>>

\* add(), lines 301-304
EndAddMeasure(w) ==
  /\ pc[w] = "end_measure"
  /\ entries' = add_measure(entries, loc[w].e,
                            TrackerMeasurement(task[w].comptype, arena_stat[w]))
  /\ calls' = [calls EXCEPT ![task[w].method] =
       Append(@, CallRecord(w, TrackerMeasurement(task[w].comptype,
                                                  arena_stat[w]),
                            loc[w].time))]
  /\ pc' = [pc EXCEPT ![w] = "end_unlock"]
  /\ UNCHANGED <<trackerVars, enabled, the_table, clock, lock_owner,
                 reportVars, task, mark, loc, permanent, tty, mark_hist, ntasks>>

\* mutant: on_end_compilation() returns with the lock still held
EndUnlock_keeps_lock(w) ==
  /\ pc[w] = "end_unlock"
  /\ loc' = [loc EXCEPT ![w] = NoLocals]
  /\ task' = [task EXCEPT ![w] = IdleTask]
  /\ pc' = [pc EXCEPT ![w] = "idle"]
  /\ UNCHANGED <<trackerVars, tableVars, lock_owner, reportVars, mark,
                 permanent, tty, mark_hist, ntasks>>

\* on_end_compilation(), line 380: the MutexLocker goes out of scope
EndUnlock(w) ==
  /\ pc[w] = "end_unlock"
  /\ lock_owner' = IF lock_owner = w THEN NoThread ELSE lock_owner
  /\ loc' = [loc EXCEPT ![w] = NoLocals]
  /\ task' = [task EXCEPT ![w] = IdleTask]
  /\ pc' = [pc EXCEPT ![w] = "idle"]
  /\ UNCHANGED <<trackerVars, tableVars, reportVars, mark, permanent, tty,
                 mark_hist, ntasks>>

CompilerThread(w) ==
  \/ \E tk \in CompileTasks : MarkCtor(w, tk)
  \/ \E a \in ArenaChanges : on_arena_change(w, a.delta, a.tag, a.comp)
  \/ \E exit \in ExitPaths : MarkDtor(w, exit)
  \/ EndAddStamp(w)
  \/ EndAddMeasure(w)
  \/ EndUnlock(w)

Next ==
  \/ Initialize
  \/ \E w \in Workers : CompilerThread(w)
  \/ PrintAllBySize({1})

Spec == Init /\ [][Next]_vars

\* Scheduling: a thread that can take a step of a call it is in takes it in
\* the end (weak fairness), and NMTCompilationCostHistory_lock does not pass
\* over a waiting thread for ever (strong fairness of the steps that take
\* the lock).
Fairness ==
  /\ \A w \in Workers :
       /\ SF_vars(EndAddStamp(w))
       /\ WF_vars(EndAddMeasure(w))
       /\ WF_vars(EndUnlock(w))
  /\ SF_vars(PrintSnapshot)
  /\ WF_vars(PrintSort)
  /\ WF_vars(PrintRow)
  /\ WF_vars(PrintUnlock)
  /\ WF_vars(PrintFree)

\* the compilations of the fair specification: both collect
LiveTasks ==
  {CompileTask(FullMethodName(1, 2, 3), "c2", TRUE, FALSE),
   CompileTask(FullMethodName(2, 1, 3), "c1", TRUE, FALSE)}

\* compiler threads that compile without allocating, and reports of all
\* records, contending for the lock
NextLive ==
  \/ Initialize
  \/ \E w \in Workers :
       \/ \E tk \in LiveTasks : MarkCtor(w, tk)
       \/ MarkDtor(w, "return")
       \/ EndAddStamp(w)
       \/ EndAddMeasure(w)
       \/ EndUnlock(w)
  \/ PrintAllBySize({0})

SpecLive == Init /\ [][NextLive]_vars /\ Fairness

(***************************************************************************)
(* Claims about the peak tracker, checked under SpecTracker.               *)
(***************************************************************************)
RECURSIVE SumTo(_, _)
SumTo(ds, k) == IF k = 0 THEN 0 ELSE SumTo(ds, k - 1) + ds[k]

\* the running totals after every prefix of ds, the empty one included
RunningTotals(b, ds) == {b + SumTo(ds, k) : k \in 0..Len(ds)}

MaxOf(S) == CHOOSE x \in S : \A y \in S : y <= x

\* C1: in a window opened by start() at baseline b, after any sequence of
\* account() calls whose running total never goes negative,
\* peak_since_start() is the maximum running total over all prefixes of the
\* sequence minus b; with b = 0 it is the maximum prefix sum.
C1_PeakSinceStartIsMaxPrefix ==
  \A w \in TrackerWorkers :
    LET h == hist[w]
        totals == RunningTotals(h.base, h.deltas) IN
    (h.opened /\ \A t \in totals : t >= 0) =>
      /\ peak_since_start(arena_stat[w]) = MaxOf(totals) - h.base
      /\ h.base = 0 =>
           peak_since_start(arena_stat[w]) = MaxOf(RunningTotals(0, h.deltas))

\* a window opened at baseline 1 whose total rises to 3, falls and rises again
C1_Witness ==
  \E w \in TrackerWorkers :
    /\ hist[w].opened
    /\ hist[w].base = 1
    /\ hist[w].deltas = <<2, -2, 1>>
    /\ peak_since_start(arena_stat[w]) = 2

\* C2 (as claimed): the at-peak category values are the category totals as
\* they were when _peak was last assigned, by account() or by start().
C2_SnapshotAtLastPeakAssignment ==
  \A w \in TrackerWorkers :
    /\ arena_stat[w].na_at_peak = hist[w].na_set
    /\ arena_stat[w].ra_at_peak = hist[w].ra_set

\* C3: peak >= current and peak >= start in every reachable state.
C3_PeakBounds ==
  \A w \in TrackerWorkers :
    /\ arena_stat[w].peak >= arena_stat[w].current
    /\ arena_stat[w].peak >= arena_stat[w].start

\* a window opened at 1 that peaked at 3 and fell below its baseline
C3_Witness ==
  \E w \in TrackerWorkers :
    /\ hist[w].opened
    /\ arena_stat[w].start = 1
    /\ arena_stat[w].peak = 3
    /\ arena_stat[w].current = 0

\* an account() call inside the current window of w
AccountStep(w) ==
  /\ hist[w].opened
  /\ Len(hist'[w].deltas) = Len(hist[w].deltas) + 1

\* C4: within a window peak_since_start() is >= 0, never decreases from one
\* account() call to the next, and is unchanged by an account() call whose
\* resulting current does not exceed the peak.
C4_PeakSinceStartMonotone ==
  [][\A w \in TrackerWorkers :
       AccountStep(w) =>
         /\ peak_since_start(arena_stat[w]) >= 0
         /\ peak_since_start(arena_stat'[w]) >= peak_since_start(arena_stat[w])
         /\ arena_stat'[w].current <= arena_stat[w].peak =>
              peak_since_start(arena_stat'[w]) = peak_since_start(arena_stat[w])
    ]_vars

\* a window whose total rose by 2 and then fell by 1 twice
C4_Witness ==
  \E w \in TrackerWorkers :
    /\ hist[w].opened
    /\ hist[w].deltas = <<2, -1, -1>>
    /\ peak_since_start(arena_stat[w]) = 2
    /\ arena_stat[w].current = hist[w].base

(***************************************************************************)
(* Claims about the registry and the report, checked under SpecRegistry.   *)
(***************************************************************************)
\* the MemStatEntry objects made for method m, and the nodes that hold m
ObjectsOf(m) == {e \in DOMAIN entries : entries[e].method = m}
NodesOf(m) == {i \in DOMAIN the_table.nodes : the_table.nodes[i].key = m}
\* the methods add() was called for
Upserted == {m \in Methods : calls[m] # <<>>}

\* C5: N >= 1 calls of add() for one method, with calls for other methods in
\* between, leave exactly one record of that method, with recompileCount N
\* and with compiler type, total, category bytes at peak and node count of
\* the Nth call.
C5_UpsertKeepsLastCall ==
  \A m \in Methods :
    LET N == Len(calls[m]) IN
    IF N = 0
    THEN ObjectsOf(m) = {} /\ NodesOf(m) = {}
    ELSE /\ Cardinality(ObjectsOf(m)) = 1
         /\ Cardinality(NodesOf(m)) = 1
         /\ \A i \in NodesOf(m) : the_table.nodes[i].value \in ObjectsOf(m)
         /\ \A e \in ObjectsOf(m) :
              /\ entries[e].num_recomp = N
              /\ entries[e].comptype = calls[m][N].meas.comptype
              /\ entries[e].total = calls[m][N].meas.total
              /\ entries[e].na_at_peak = calls[m][N].meas.na_at_peak
              /\ entries[e].ra_at_peak = calls[m][N].meas.ra_at_peak
              /\ entries[e].live_nodes_at_peak = calls[m][N].meas.live_nodes_at_peak

\* a method added with total 3 and, after another method, again with total 1
C5_Witness ==
  \E m, o \in Methods :
    /\ m # o
    /\ Len(calls[m]) = 2 /\ Len(calls[o]) = 1
    /\ calls[m][1].meas.total = 3 /\ calls[m][2].meas.total = 1
    /\ calls[m][1].time < calls[o][1].time
    /\ calls[o][1].time < calls[m][2].time
    /\ \E e \in ObjectsOf(m) : entries[e].total = 1 /\ entries[e].num_recomp = 2

\* the records whose total is at least min_size
Matching(min_size) == {e \in DOMAIN entries : entries[e].total >= min_size}

\* C6: the snapshot holds exactly the records with total >= min_size, each
\* once; with min_size = 0 it holds one entry per method ever added; the
\* count printed is the number of entries returned and the number of records
\* of the registry.
C6_SnapshotIsExact ==
  rep.pc = "sort" =>
    /\ {rep.filtered[i] : i \in DOMAIN rep.filtered} = Matching(rep.min_size)
    /\ Len(rep.filtered) = Cardinality(Matching(rep.min_size))
    /\ rep.num = Len(rep.filtered)
    /\ rep.min_size = 0 =>
         /\ rep.num = Cardinality(Upserted)
         /\ \A m \in Upserted :
              Cardinality({i \in DOMAIN rep.filtered :
                             entries[rep.filtered[i]].method = m}) = 1
    /\ rep.min_size > 0 =>
         out[Len(out)] = Line("count", <<Len(rep.filtered), Cardinality(Upserted)>>)

\* a snapshot with cutoff 2 of three records, one of them just as large
C6_Witness ==
  /\ rep.pc = "sort"
  /\ rep.min_size = 2
  /\ Cardinality(Upserted) = 3
  /\ rep.num = 2
  /\ \E i \in DOMAIN rep.filtered : entries[rep.filtered[i]].total = 2

\* the rows of a report
Rows(o) == SelectSeq(o, LAMBDA l : l[1] = "row")

\* C7: the rows of a report are in non-increasing order of total, and when
\* the last row is out they are exactly the records with total >= min_size,
\* each once, after the count "(rows/records)" when there is a cutoff.
C7_ReportRowsSorted ==
  LET rows == Rows(out) IN
  /\ \A i \in 1..(Len(rows) - 1) : rows[i][2].total >= rows[i + 1][2].total
  /\ rep.pc = "unlock" =>
       /\ {rows[i][2] : i \in DOMAIN rows} =
            {entries[e] : e \in Matching(rep.min_size)}
       /\ Len(rows) = Cardinality(Matching(rep.min_size))
       /\ rep.min_size > 0 =>
            \E i \in DOMAIN out :
              out[i] = Line("count", <<Len(rows), Cardinality(Upserted)>>)

\* records with totals 3, 1 and 2 reported with cutoff 2: 3, then 2, "(2/3)"
C7_Witness ==
  LET rows == Rows(out) IN
  /\ rep.pc = "unlock"
  /\ rep.min_size = 2
  /\ {entries[e].total : e \in DOMAIN entries} = {1, 2, 3}
  /\ Len(rows) = 2
  /\ rows[1][2].total = 3 /\ rows[2][2].total = 2
  /\ \E i \in DOMAIN out : out[i] = Line("count", <<2, 3>>)

(***************************************************************************)
(* Claims about compiler threads and the report side by side, checked      *)
(* under Spec.                                                             *)
(***************************************************************************)
\* the record the nth completed add() call for method m leaves behind
RowOf(m, n) ==
  [method |-> m, comptype |-> calls[m][n].meas.comptype,
   time |-> calls[m][n].time, num_recomp |-> n,
   thread |-> calls[m][n].thread, total |-> calls[m][n].meas.total,
   na_at_peak |-> calls[m][n].meas.na_at_peak,
   ra_at_peak |-> calls[m][n].meas.ra_at_peak,
   live_nodes_at_peak |-> calls[m][n].meas.live_nodes_at_peak]

\* C8: print_all_by_size() holds the lock from the snapshot to the last row,
\* and every row it printed shows compiler type, time, thread, recompilation
\* count, total, NA, RA and node count of one completed add() call of the
\* row's method.
C8_NoTornRows ==
  /\ rep.pc \in {"sort", "rows", "unlock"} => lock_owner = Reporter
  /\ \A i \in DOMAIN out :
       out[i][1] = "row" =>
         \E n \in 1..Len(calls[out[i][2].method]) :
           out[i][2] = RowOf(out[i][2].method, n)

\* a row with a total was printed while a compiler thread waits for the lock
\* to add the same method
C8_Witness ==
  /\ rep.pc = "unlock"
  /\ \E i \in DOMAIN out, w \in Workers :
       /\ out[i][1] = "row"
       /\ out[i][2].total > 0
       /\ pc[w] = "end_lock"
       /\ task[w].method = out[i][2].method

\* no compiler thread is inside add()
NoAddRunning == \A w \in Workers : pc[w] # "end_measure"

\* C9: however the on_end_compilation() calls of the threads interleave, the
\* table holds at most one record per method, a record belongs to the method
\* of its node and to no other node (also when hashes coincide), and while
\* no add() is running every record shows the count of the completed calls
\* for its method and the fields of the last of them.
C9_OneRecordPerMethod ==
  /\ \A m \in Methods :
       Cardinality(NodesOf(m)) <= 1 /\ Cardinality(ObjectsOf(m)) <= 1
  /\ \A i, j \in DOMAIN the_table.nodes :
       /\ entries[the_table.nodes[i].value].method = the_table.nodes[i].key
       /\ i # j => the_table.nodes[i].value # the_table.nodes[j].value
  /\ NoAddRunning =>
       \A m \in Methods :
         IF calls[m] = <<>>
         THEN ObjectsOf(m) = {}
         ELSE \A e \in ObjectsOf(m) : entries[e] = RowOf(m, Len(calls[m]))

\* two threads finish the same method, not yet in the table, at the same
\* time: one is in add() and has made the record, the other waits
C9_Witness ==
  \E w, v \in Workers :
    /\ w # v
    /\ pc[w] = "end_measure" /\ pc[v] = "end_lock"
    /\ task[w].method = task[v].method
    /\ calls[task[w].method] = <<>>
    /\ \E e \in ObjectsOf(task[w].method) : entries[e].num_recomp = 1

\* the completed add() calls of thread w
CallsBy(w) ==
  {c \in Methods \X (1..MaxTasks + 1) :
     c[2] <= Len(calls[c[1]]) /\ calls[c[1]][c[2]].thread = w}

\* the hooks called on thread w match the marks built and left on it
MarkCounts(w) ==
  LET h == mark_hist[w] IN
  /\ h.starts = h.built_active
  /\ h.ends = h.left_active
  /\ h.built_active =
       h.left_active + (IF mark[w].live /\ mark[w].active THEN 1 ELSE 0)
  /\ h.built_inactive =
       h.left_inactive + (IF mark[w].live /\ ~mark[w].active THEN 1 ELSE 0)
  /\ Cardinality(CallsBy(w)) =
       h.ends - (IF pc[w] \in {"end_lock", "end_measure"} THEN 1 ELSE 0)

\* C10: a mark whose directive asks for collection calls
\* on_start_compilation() once when it is built (the tracker is
\* re-baselined) and on_end_compilation() once when its scope is left, on
\* every exit path, which ends in one add() call; a mark whose directive does
\* not ask for it calls neither and leaves tracker and table as they are.
C10_MarkPairsHooks ==
  [][\A w \in Workers :
       /\ MarkCounts(w)'
       /\ (~mark[w].live /\ mark'[w].live) =>
            /\ mark'[w].active = task'[w].collect
            /\ the_table' = the_table /\ entries' = entries
            /\ IF task'[w].collect
               THEN /\ arena_stat'[w] = start(arena_stat[w])
                    /\ mark_hist'[w].starts = mark_hist[w].starts + 1
               ELSE /\ arena_stat'[w] = arena_stat[w]
                    /\ mark_hist'[w].starts = mark_hist[w].starts
       /\ (mark[w].live /\ ~mark'[w].live) =>
            /\ the_table' = the_table /\ entries' = entries
            /\ arena_stat'[w] = arena_stat[w]
            /\ IF task[w].collect
               THEN /\ mark_hist'[w].ends = mark_hist[w].ends + 1
                    /\ pc'[w] = "end_lock"
                    /\ loc'[w].exit \in ExitPaths
               ELSE /\ mark_hist'[w].ends = mark_hist[w].ends
                    /\ pc'[w] = "idle"
    ]_vars

\* one thread left an active mark by unwinding and its add() call is done;
\* the other left an inactive mark under which it allocated
C10_Witness ==
  \E w, v \in Workers :
    /\ w # v
    /\ mark_hist[w].left_active = 1 /\ mark_hist[w].ends = 1
    /\ Cardinality(CallsBy(w)) = 1
    /\ mark_hist[v].left_inactive = 1 /\ mark_hist[v].ends = 0
    /\ Cardinality(CallsBy(v)) = 0
    /\ arena_stat[v].current > 0 /\ arena_stat[v].peak > arena_stat[v].start
    /\ pc[w] = "idle" /\ pc[v] = "idle"

\* C11 (as claimed): every add() call made for a compilation by a compiler
\* without a live node counter (any type but c2) passes 0 as the node count at
\* peak, whatever the thread compiled before.
C11_NodeCountOnlyForC2 ==
  \A m \in Methods : \A n \in DOMAIN calls[m] :
    calls[m][n].meas.comptype # "c2" =>
      calls[m][n].meas.live_nodes_at_peak = 0

\* what print_all_by_size() prints while the statistic is not enabled
Unavailable == <<Line("title", <<>>), Line("unavailable", <<>>)>>

\* C12: print_all_by_size() called before initialize() prints the title and
\* "(unavailable)" and returns: no legend, header or row is printed, the lock
\* is not taken, and _enabled and the table stay as they are.
C12_UnavailableBeforeInitialize ==
  [][/\ ~enabled' =>
          /\ out' \in {<<>>, Unavailable}
          /\ rep' = ReportIdle
          /\ lock_owner' # Reporter
     /\ (~enabled /\ out' # out) =>
          /\ out' = Unavailable
          /\ lock_owner' = lock_owner
          /\ enabled' = enabled
          /\ the_table' = the_table /\ entries' = entries
    ]_vars

\* the report ran before initialize() while a compiler thread was compiling
C12_Witness ==
  /\ ~enabled
  /\ out = Unavailable
  /\ rep = ReportIdle
  /\ \E w \in Workers : pc[w] = "compiling"

\* C13: initialize() takes the statistic from uninitialized to enabled and
\* nothing takes it back: _enabled and the table, once set, stay set, so the
\* assertion of initialize() fails for every later call; and whenever
\* enabled() is true the table exists, because initialize() makes the table
\* before it sets the flag.
C13_LifecycleOneWay ==
  [][/\ enabled => enabled'
     /\ the_table.allocated => the_table'.allocated
     /\ (enabled \/ the_table.allocated) =>
          ~initialize_pre(enabled', the_table')
     /\ enabled' => the_table'.allocated
     /\ (enabled' # enabled) => (the_table.allocated /\ the_table' = the_table)
    ]_vars

\* the statistic is enabled, a record was added and a report has printed it
C13_Witness ==
  /\ enabled /\ the_table.allocated
  /\ ~initialize_pre(enabled, the_table)
  /\ Len(the_table.nodes) > 0
  /\ rep.pc = "free"
  /\ \E i \in DOMAIN out : out[i][1] = "row"

\* the methods whose call history grows in this step: add() ran for them
AddedNow(m) == Len(calls'[m]) = Len(calls[m]) + 1

\* C14: over any sequence of add() calls and reports the table only grows:
\* no node is removed, no key gets another MemStatEntry object, and the
\* recompilation count of a record goes up by exactly 1 in every add() for
\* its method (from 0 at creation) and is left alone by add() for other
\* methods and by every step of print_all_by_size().
C14_RecordsOnlyGrow ==
  [][/\ \A i \in DOMAIN the_table.nodes :
          /\ i \in DOMAIN the_table'.nodes
          /\ the_table'.nodes[i] = the_table.nodes[i]
     /\ \A e \in DOMAIN entries :
          /\ e \in DOMAIN entries'
          /\ entries'[e].method = entries[e].method
          /\ entries'[e].num_recomp =
               entries[e].num_recomp
                 + (IF AddedNow(entries[e].method) THEN 1 ELSE 0)
     /\ \A e \in DOMAIN entries' \ DOMAIN entries :
          AddedNow(entries'[e].method) /\ entries'[e].num_recomp = 1
     /\ (rep' # rep \/ out' # out) =>
          (the_table' = the_table /\ entries' = entries)
    ]_vars

\* a record added twice, another once after it, and a report printed both
C14_Witness ==
  /\ rep.pc = "free"
  /\ Len(rep.filtered) = 2
  /\ \E e, f \in DOMAIN entries :
       /\ e < f
       /\ entries[e].num_recomp = 2 /\ entries[f].num_recomp = 1
       /\ entries[f].time < entries[e].time

\* thread t is between taking the lock and releasing it
InLockedScope(t) ==
  IF t = Reporter
  THEN rep.pc \in {"sort", "rows", "unlock"}
  ELSE pc[t] \in {"end_measure", "end_unlock"}

\* C15: every on_end_compilation() and every print_all_by_size() call that
\* has started comes to its end, with the lock released; a call takes the
\* lock once, only when it is free, and the lock is held exactly by the
\* thread that is inside its locked scope, so it is free whenever no add()
\* and no report is under way.
C15_CallsCompleteAndUnlock ==
  /\ \A w \in Workers :
       (pc[w] = "end_lock") ~> (pc[w] = "idle" /\ lock_owner # w)
  /\ (rep.pc = "lock") ~> (rep.pc = "idle" /\ lock_owner # Reporter)
  /\ [](\A t \in Workers \cup {Reporter} : lock_owner = t <=> InLockedScope(t))
  /\ [][\A t \in Workers \cup {Reporter} :
          (lock_owner' = t /\ lock_owner # t) =>
            /\ lock_owner = NoThread
            /\ IF t = Reporter
               THEN rep.pc = "lock"
               ELSE pc[t] = "end_lock"]_vars

\* one compiler thread is inside add() with the lock while the other and the
\* report both wait for it
C15_Witness ==
  \E w, v \in Workers :
    /\ w # v
    /\ lock_owner = w /\ pc[w] = "end_measure"
    /\ pc[v] = "end_lock"
    /\ rep.pc = "lock"

\* C16 (as claimed): in every record that on_end_compilation() made, the NA
\* and RA figures are parts of the total: NA + RA <= total.
C16_CategoriesWithinTotal ==
  \A m \in Methods : \A n \in DOMAIN calls[m] :
    calls[m][n].meas.na_at_peak + calls[m][n].meas.ra_at_peak
      <= calls[m][n].meas.total

\* an account() call on the tracker of w, in a window or before the first
AccountCall(w) == Len(hist'[w].deltas) = Len(hist[w].deltas) + 1

\* C17: account() returns true exactly when the new _current is above the
\* _peak held before the call, which is exactly when it assigns _peak; this
\* happens only in calls with delta > 0 (the assertion in the peak branch
\* holds as long as the first assertion does), and a call that brings
\* _current to the old _peak returns false.
C17_ReturnsTrueOnNewPeak ==
  [][\A w \in TrackerWorkers :
       AccountCall(w) =>
         LET old == arena_stat[w]
             new == arena_stat'[w]
             delta == hist'[w].deltas[Len(hist'[w].deltas)]
             rc == \E tag \in Tags : account_rc(old, delta, tag)
         IN /\ \A tag \in Tags : account_rc(old, delta, tag) = rc
            /\ new.current = old.current + delta
            /\ rc <=> (new.current > old.peak)
            /\ rc <=> (new.peak # old.peak)
            /\ rc => (delta > 0 /\ new.peak = new.current)
            /\ (new.current = old.peak) => ~rc
    ]_vars

\* the total fell below the peak of the window and a call brought it back
\* exactly to that peak
C17_Witness ==
  \E w \in TrackerWorkers :
    /\ hist[w].opened
    /\ hist[w].deltas = <<2, -1, 1>>
    /\ arena_stat[w].current = arena_stat[w].peak
    /\ arena_stat[w].peak = hist[w].base + 2

\* the step that frees the array behind the snapshot
ArrayFreed == rep.array /\ ~rep'.array

\* C18 (as claimed): print_all_by_size() frees the snapshot array while it
\* still holds the lock, before the lock is released.
C18_FreedUnderLock ==
  [][ArrayFreed => lock_owner = Reporter]_vars

\* C18 (amended): print_all_by_size() frees the snapshot array after the
\* last row is printed and after it has released the lock; the array exists
\* from the snapshot on, and every step that reads it (sort, rows) runs with
\* the lock held.
C18_FreedAfterUnlock ==
  [][/\ ArrayFreed =>
          /\ rep.pc = "free" /\ rep'.pc = "idle"
          /\ lock_owner # Reporter
          /\ rep.num = 0 \/ rep.i > rep.num
     /\ (lock_owner = Reporter /\ lock_owner' # Reporter) =>
          rep'.array = rep.array
     /\ rep'.pc \in {"sort", "rows"} =>
          (rep'.array /\ lock_owner' = Reporter)
    ]_vars

\* the rows are printed and the lock is released, the array is not yet freed,
\* and a compiler thread is already inside add() with the lock
C18_Witness ==
  /\ rep.pc = "free" /\ rep.array
  /\ rep.num > 0 /\ rep.i > rep.num
  /\ \E w \in Workers : lock_owner = w /\ pc[w] = "end_measure"

\* the three symbols of a method name
SymbolsOf(fmn) == {fmn.k, fmn.m, fmn.s}

\* C19: on_end_compilation() makes the three symbols of the method name
\* permanent before it calls add(), so a thread on its way into add() holds
\* a name of permanent symbols and every key of the table consists of
\* permanent symbols.
C19_KeysArePermanent ==
  /\ \A i \in DOMAIN the_table.nodes :
       SymbolsOf(the_table.nodes[i].key) \subseteq permanent
  /\ \A w \in Workers :
       pc[w] \in {"end_lock", "end_measure", "end_unlock"} =>
         SymbolsOf(task[w].method) \subseteq permanent

\* a thread has made the name of its method permanent and waits for the
\* lock; the table holds one key, of another method
C19_Witness ==
  \E w \in Workers :
    /\ pc[w] = "end_lock"
    /\ NodesOf(task[w].method) = {}
    /\ Len(the_table.nodes) = 1
    /\ SymbolsOf(task[w].method) = {1, 2, 3}
    /\ permanent = {1, 2, 3}

\* thread w takes this step
Steps(w) ==
  pc'[w] # pc[w] \/ task'[w] # task[w] \/ mark'[w] # mark[w]
    \/ arena_stat'[w] # arena_stat[w]

\* C20: a tracker is changed only by steps of its own thread, in
\* on_start_compilation() and on_arena_change(); these take no lock and
\* leave the other trackers and the records of the table alone; the records
\* change only inside on_end_compilation(); and start() changes _start and
\* _peak only.
C20_TrackersNotShared ==
  [][/\ \A w \in Workers :
          arena_stat'[w] # arena_stat[w] =>
            /\ pc[w] \in {"idle", "compiling"} /\ pc'[w] = "compiling"
            /\ \A v \in Workers \ {w} : ~Steps(v)
            /\ lock_owner' = lock_owner
            /\ the_table' = the_table /\ entries' = entries
     /\ \A w \in Workers :
          (pc[w] = "idle" /\ pc'[w] = "compiling") =>
            /\ arena_stat'[w] =
                 [arena_stat[w] EXCEPT !.start = arena_stat'[w].start,
                                       !.peak = arena_stat'[w].peak]
            /\ mark'[w].active =>
                 /\ arena_stat'[w].start = arena_stat[w].current
                 /\ arena_stat'[w].peak = arena_stat[w].current
     /\ (the_table'.nodes # the_table.nodes \/ entries' # entries) =>
          /\ \E w \in Workers :
               /\ pc[w] \in {"end_lock", "end_measure"}
               /\ pc'[w] # pc[w]
               /\ lock_owner' = w
          /\ arena_stat' = arena_stat
    ]_vars

\* both threads are compiling in a window of their own: one has allocated
\* since its start(), the tracker of the other is as start() left it
C20_Witness ==
  \E w, v \in Workers :
    /\ w # v
    /\ pc[w] = "compiling" /\ pc[v] = "compiling"
    /\ mark[w].active /\ mark[v].active
    /\ arena_stat[w].start = 0 /\ arena_stat[w].peak = 1
    /\ arena_stat[w].na_at_peak = 1
    /\ arena_stat[v] = ArenaStatCounter
    /\ lock_owner = NoThread /\ entries = <<>>

====
